---- MODULE Spec2Model ----
(***************************************************************************)
(* Cart and checkout of the rental-goods storefront (src/home.py) over the *)
(* products table (src/database.py), with the administrator's edits        *)
(* (src/admin_panel.py) running as a second process on the same database.  *)
(*                                                                         *)
(* Amounts are whole rupees: the prices drawn here are integer-valued      *)
(* floats, on which the cart's float arithmetic is exact.                  *)
(***************************************************************************)
EXTENDS Integers, Sequences, FiniteSets, TLC

(* ------------------------------ bounds --------------------------------- *)
MaxStock == 3          \* largest stock quantity the administrator enters
MaxAdminEdits == 1     \* number of administrator edits in one run
MaxRupees == 100100    \* largest whole amount put into words

Products == {1, 2}
Prices == {200, 500}
AdvanceSteps == {200, 600}
Texts == {"", " ", "x"}
OptionalTexts == {"", "x"}

(* ------------------------- products table ------------------------------ *)
\* Row of the products table, in the column order of CREATE TABLE:
\* id, name, description, price_per_hour, image_path, stock_quantity,
\* is_available, created_at.  SELECT * returns the row as a tuple.
ProductName(id) == IF id = 1 THEN "P" ELSE "Q"

ProductRow(id, price, stock, avail) ==
    <<id, ProductName(id), "", price, "", stock, avail, 0>>

\* fetchone() of a SELECT that matches no row
NoRow == <<>>

\* Python's zero-based tuple index: product[i]
Col(row, i) == row[i + 1]

COL_PRICE == 3
COL_STOCK == 5
COL_AVAILABLE == 6

get_product(d, product_id) == d[product_id]

\* UPDATE products SET <the columns given> WHERE id = ?; upd maps the
\* zero-based column positions to their new values.  A missing id matches
\* no row.
update_product(d, product_id, upd) ==
    IF d[product_id] = NoRow THEN d
    ELSE [d EXCEPT ![product_id] =
            [i \in 1..8 |-> IF (i - 1) \in DOMAIN upd THEN upd[i - 1] ELSE @[i]]]

delete_product(d, product_id) == [d EXCEPT ![product_id] = NoRow]

(* --------------------------- product list ------------------------------ *)
NoWidget == [shown |-> FALSE, price |-> 0, stock |-> 0, is_available |-> FALSE]

\* ProductWidget.__init__: price at index 3, stock at index 5,
\* is_available at index 6
ProductWidget(row) ==
    [shown |-> TRUE,
     price |-> Col(row, COL_PRICE),
     stock |-> IF Col(row, COL_STOCK) # 0 THEN Col(row, COL_STOCK) ELSE 0,
     is_available |-> Col(row, COL_AVAILABLE) # 0]

\* CustomerStoreWidget.load_products_from_db: one widget per row whose
\* is_available (index 6) is truthy
load_products_from_db(d) ==
    [p \in Products |->
        IF d[p] # NoRow /\ Col(d[p], COL_AVAILABLE) # 0
        THEN ProductWidget(d[p]) ELSE NoWidget]

\* The Add to Cart button is enabled iff is_available and stock > 0
ButtonEnabled(w) == w.shown /\ w.is_available /\ w.stock > 0

(* ------------------------------ state ---------------------------------- *)
VARIABLES
    db,            \* products table: product id -> row, or NoRow
    widgets,       \* CustomerStoreWidget.product_widgets, by product id
    cart_items,    \* CartWidget.cart_items
    unitPrice,     \* price passed to the add that created the cart line
    pc,            \* position of the running checkout handler
    flow,          \* which handler runs: "full" or "advance"
    dlg,           \* AdvancePaymentDialog fields
    customer,      \* result of get_customer_info
    invoice,       \* document content built by the running handler
    msg,           \* message box shown by the last handler run ("none": no box)
    lastAdd,       \* the add_to_cart call, when it was the last handler to run:
                   \* its arguments, and the quantity and total of the same
                   \* product's line before it
    validated,     \* rows read by the stock check of the running attempt
    adminEdits,    \* administrator edits so far
    amount,        \* argument n of a call of PDFGenerator.number_to_words
    words          \* what that call returned

vars == <<db, widgets, cart_items, unitPrice, pc, flow, dlg, customer,
          invoice, msg, lastAdd, validated, adminEdits, amount, words>>

\* The state of a number_to_words call, and the state of the storefront
wvars == <<amount, words>>
svars == <<db, widgets, cart_items, unitPrice, pc, flow, dlg, customer,
           invoice, msg, lastAdd, validated, adminEdits>>

NoDialog == [total_amount |-> 0, advance_amount |-> 0, balance_amount |-> 0,
             payment_method |-> "Cash", payment_type |-> "unset"]
NoCustomer == <<>>
NotCalled == <<"(not called)">>
NoInvoice == [payment_status |-> "none"]
NoAdd == [product_id |-> 0, price |-> 0, stock_available |-> 0, quantity |-> 0,
          total |-> 0, reply |-> "none"]

\* The answer given to the "Replace Cart Item" question of an add_to_cart
\* call; the question is asked only when the cart holds another product.
ReplaceReply(cart, product_id, reply) ==
    IF cart # <<>> /\ cart[1].id # product_id THEN reply ELSE "none"

(* ------------------------------- cart ---------------------------------- *)
CartLine(product_id, product_name, price) ==
    [id |-> product_id, name |-> product_name, price |-> price, quantity |-> 1]

\* add_to_cart with the replacement appending instead of clearing first
add_to_cart_NoClear(cart, product_id, product_name, price, stock_available, reply) ==
    IF Len(cart) >= 1 /\ cart[1].id # product_id /\ reply = "Yes"
       /\ stock_available > 0
    THEN [cart |-> Append(cart, CartLine(product_id, product_name, price)),
          msg |-> "Cart Updated"]
    ELSE IF Len(cart) >= 1 /\ cart[1].id = product_id THEN
        IF cart[1].quantity >= stock_available
        THEN [cart |-> cart, msg |-> "Stock Limit Reached"]
        ELSE [cart |-> [cart EXCEPT ![1] =
                           [@ EXCEPT !.quantity = @ + 1,
                                     !.price = price * (cart[1].quantity + 1)]],
              msg |-> "Quantity Updated"]
    ELSE IF Len(cart) >= 1 THEN [cart |-> cart, msg |-> "Replace Cart Item"]
    ELSE IF stock_available <= 0
         THEN [cart |-> cart, msg |-> "Out of Stock"]
         ELSE [cart |-> Append(cart, CartLine(product_id, product_name, price)),
               msg |-> "Added to Cart"]

\* add_to_cart with the stock limit test off by one (> for >=)
add_to_cart_OffByOne(cart, product_id, product_name, price, stock_available, reply) ==
    IF Len(cart) >= 1 /\ cart[1].id = product_id THEN
        IF cart[1].quantity > stock_available
        THEN [cart |-> cart, msg |-> "Stock Limit Reached"]
        ELSE [cart |-> [cart EXCEPT ![1] =
                           [@ EXCEPT !.quantity = @ + 1,
                                     !.price = price * (cart[1].quantity + 1)]],
              msg |-> "Quantity Updated"]
    ELSE IF Len(cart) >= 1 THEN
        IF reply = "Yes" THEN
            IF stock_available <= 0
            THEN [cart |-> cart, msg |-> "Out of Stock"]
            ELSE [cart |-> <<CartLine(product_id, product_name, price)>>,
                  msg |-> "Cart Updated"]
        ELSE [cart |-> cart, msg |-> "Replace Cart Item"]
    ELSE IF stock_available <= 0
         THEN [cart |-> cart, msg |-> "Out of Stock"]
         ELSE [cart |-> Append(cart, CartLine(product_id, product_name, price)),
               msg |-> "Added to Cart"]

\* add_to_cart without the stock test of the empty-cart branch
add_to_cart_EmptyNoStockTest(cart, product_id, product_name, price, stock_available, reply) ==
    IF Len(cart) >= 1 THEN
        LET current_item == cart[1]
            current_quantity == current_item.quantity
            unit_price == price
            new_quantity == current_quantity + 1
        IN  IF current_item.id = product_id THEN
                IF current_quantity >= stock_available
                THEN [cart |-> cart, msg |-> "Stock Limit Reached"]
                ELSE [cart |-> [cart EXCEPT ![1] =
                                   [@ EXCEPT !.quantity = new_quantity,
                                             !.price = unit_price * new_quantity]],
                      msg |-> "Quantity Updated"]
            ELSE IF reply = "Yes" THEN
                IF stock_available <= 0
                THEN [cart |-> cart, msg |-> "Out of Stock"]
                ELSE [cart |-> <<CartLine(product_id, product_name, price)>>,
                      msg |-> "Cart Updated"]
            ELSE [cart |-> cart, msg |-> "Replace Cart Item"]
    ELSE IF FALSE
         THEN [cart |-> cart, msg |-> "Out of Stock"]
         ELSE [cart |-> Append(cart, CartLine(product_id, product_name, price)),
               msg |-> "Added to Cart"]

\* add_to_cart replacing the line without waiting for the answer
add_to_cart_ReplaceUnasked(cart, product_id, product_name, price, stock_available, reply) ==
    IF Len(cart) >= 1 THEN
        LET current_item == cart[1]
            current_quantity == current_item.quantity
            unit_price == price
            new_quantity == current_quantity + 1
        IN  IF current_item.id = product_id THEN
                IF current_quantity >= stock_available
                THEN [cart |-> cart, msg |-> "Stock Limit Reached"]
                ELSE [cart |-> [cart EXCEPT ![1] =
                                   [@ EXCEPT !.quantity = new_quantity,
                                             !.price = unit_price * new_quantity]],
                      msg |-> "Quantity Updated"]
            ELSE IF TRUE THEN
                IF stock_available <= 0
                THEN [cart |-> cart, msg |-> "Out of Stock"]
                ELSE [cart |-> <<CartLine(product_id, product_name, price)>>,
                      msg |-> "Cart Updated"]
            ELSE [cart |-> cart, msg |-> "Replace Cart Item"]
    ELSE IF stock_available <= 0
         THEN [cart |-> cart, msg |-> "Out of Stock"]
         ELSE [cart |-> Append(cart, CartLine(product_id, product_name, price)),
               msg |-> "Added to Cart"]

\* add_to_cart without the stock test of the replacement branch
add_to_cart_ReplaceNoStockTest(cart, product_id, product_name, price, stock_available, reply) ==
    IF Len(cart) >= 1 THEN
        LET current_item == cart[1]
            current_quantity == current_item.quantity
            unit_price == price
            new_quantity == current_quantity + 1
        IN  IF current_item.id = product_id THEN
                IF current_quantity >= stock_available
                THEN [cart |-> cart, msg |-> "Stock Limit Reached"]
                ELSE [cart |-> [cart EXCEPT ![1] =
                                   [@ EXCEPT !.quantity = new_quantity,
                                             !.price = unit_price * new_quantity]],
                      msg |-> "Quantity Updated"]
            ELSE IF reply = "Yes" THEN
                IF FALSE
                THEN [cart |-> cart, msg |-> "Out of Stock"]
                ELSE [cart |-> <<CartLine(product_id, product_name, price)>>,
                      msg |-> "Cart Updated"]
            ELSE [cart |-> cart, msg |-> "Replace Cart Item"]
    ELSE IF stock_available <= 0
         THEN [cart |-> cart, msg |-> "Out of Stock"]
         ELSE [cart |-> Append(cart, CartLine(product_id, product_name, price)),
               msg |-> "Added to Cart"]

\* CartWidget.add_to_cart; reply is the answer to the Replace Cart Item
\* question.  Yields the new cart_items and the message box shown.
add_to_cart(cart, product_id, product_name, price, stock_available, reply) ==
    IF Len(cart) >= 1 THEN
        LET current_item == cart[1]
            current_quantity == current_item.quantity
            unit_price == price
            new_quantity == current_quantity + 1
        IN  IF current_item.id = product_id THEN
                IF current_quantity >= stock_available
                THEN [cart |-> cart, msg |-> "Stock Limit Reached"]
                ELSE [cart |-> [cart EXCEPT ![1] =
                                   [@ EXCEPT !.quantity = new_quantity,
                                             !.price = unit_price * new_quantity]],
                      msg |-> "Quantity Updated"]
            ELSE IF reply = "Yes" THEN
                IF stock_available <= 0
                THEN [cart |-> cart, msg |-> "Out of Stock"]
                ELSE [cart |-> <<CartLine(product_id, product_name, price)>>,
                      msg |-> "Cart Updated"]
            ELSE [cart |-> cart, msg |-> "Replace Cart Item"]
    ELSE IF stock_available <= 0
         THEN [cart |-> cart, msg |-> "Out of Stock"]
         ELSE [cart |-> Append(cart, CartLine(product_id, product_name, price)),
               msg |-> "Added to Cart"]

\* CartWidget.remove_from_cart: pop(row) when the row exists
\* remove_from_cart taking one unit off a line of several
remove_from_cart_Decrement(cart, row) ==
    IF 0 <= row /\ row < Len(cart)
    THEN IF cart[row + 1].quantity > 1
         THEN [cart EXCEPT ![row + 1].quantity = @ - 1]
         ELSE [i \in 1..(Len(cart) - 1) |-> IF i <= row THEN cart[i] ELSE cart[i + 1]]
    ELSE cart

remove_from_cart(cart, row) ==
    IF 0 <= row /\ row < Len(cart)
    THEN [i \in 1..(Len(cart) - 1) |-> IF i <= row THEN cart[i] ELSE cart[i + 1]]
    ELSE cart

RECURSIVE SumPrice(_, _)
SumPrice(cart, i) == IF i > Len(cart) THEN 0 ELSE cart[i].price + SumPrice(cart, i + 1)

\* total = sum(item['price'] for item in self.cart_items)
CartTotal(cart) == SumPrice(cart, 1)

(* ----------------------------- checkout -------------------------------- *)
PaymentMethods == {"Cash", "Credit Card", "Debit Card", "UPI", "Bank Transfer"}

\* The stock check at the head of checkout and process_advance_payment:
\* for each cart item whose row exists, int(product[6]) < quantity aborts.
RECURSIVE StockCheck(_, _, _)
StockCheck(cart, d, i) ==
    IF i > Len(cart) THEN TRUE
    ELSE LET item == cart[i]
             product == get_product(d, item.id)
         IN  IF product # NoRow
             THEN LET current_stock == Col(product, 6)
                      requested_quantity == item.quantity
                  IN  IF current_stock < requested_quantity THEN FALSE
                      ELSE StockCheck(cart, d, i + 1)
             ELSE StockCheck(cart, d, i + 1)

\* The rows the stock check read, one per cart item
RowsRead(cart, d) == [i \in 1..Len(cart) |-> get_product(d, cart[i].id)]

\* The stock update loop after generate_invoice: for each cart item whose
\* row exists, new_stock = int(product[6]) - quantity, written to the
\* stock_quantity column.
RECURSIVE DeductStock(_, _, _)
DeductStock(cart, d, i) ==
    IF i > Len(cart) THEN d
    ELSE LET item == cart[i]
             product == get_product(d, item.id)
         IN  IF product # NoRow
             THEN LET current_stock == Col(product, 6)
                      quantity_purchased == item.quantity
                      new_stock == current_stock - quantity_purchased
                  IN  DeductStock(cart,
                                  update_product(d, item.id, (COL_STOCK :> new_stock)),
                                  i + 1)
             ELSE DeductStock(cart, d, i + 1)

\* The products whose stock the update loop writes: the cart items whose row
\* get_product finds ("if product:").
StockWrites(cart, d) ==
    {cart[i].id : i \in {j \in 1..Len(cart) : get_product(d, cart[j].id) # NoRow}}

\* ---- Amount in words (PDFGenerator.number_to_words) ----
\* A text is the sequence of its words; the blank between two words is the
\* element " ", so that str.strip and the joining blanks are computed as the
\* code computes them.  The empty string is the empty sequence.
units ==
    <<"One", "Two", "Three", "Four", "Five", "Six", "Seven", "Eight", "Nine">>
teens ==
    <<"Ten", "Eleven", "Twelve", "Thirteen", "Fourteen", "Fifteen", "Sixteen",
      "Seventeen", "Eighteen", "Nineteen">>
tens ==
    <<"", "", "Twenty", "Thirty", "Forty", "Fifty", "Sixty", "Seventy", "Eighty", "Ninety">>

\* units[i] of the code, whose element 0 is the empty string
Unit(i) == IF i = 0 THEN <<>> ELSE <<units[i]>>

\* tens[i] of the code, whose elements 0 and 1 are the empty string
Ten(i) == IF tens[i + 1] = "" THEN <<>> ELSE <<tens[i + 1]>>

convert_two_digits(num) ==
    IF num < 10 THEN Unit(num)
    ELSE IF num < 20 THEN <<teens[num - 10 + 1]>>
    ELSE LET ten == num \div 10
             unit == num % 10
         IN  IF ten < Len(tens)
             THEN Ten(ten) \o (IF unit > 0 THEN <<" ">> \o Unit(unit) ELSE <<>>)
             ELSE <<ToString(num)>>

RECURSIVE lstrip(_)
lstrip(t) == IF t # <<>> /\ Head(t) = " " THEN lstrip(Tail(t)) ELSE t

RECURSIVE rstrip(_)
rstrip(t) == IF t # <<>> /\ t[Len(t)] = " " THEN rstrip(SubSeq(t, 1, Len(t) - 1)) ELSE t

strip(t) == rstrip(lstrip(t))

\* n is the amount in thousandths of a rupee.  int(n) is the whole rupees and
\* int(round((n - rupees) * 100)) the nearest number of paise; an amount that
\* lies exactly between two paise is rounded by its binary representation and
\* is not among the amounts drawn.
MILLS == 1000

number_to_words(n) ==
    IF n = 0 THEN <<"Zero">>
    ELSE LET rupees == n \div MILLS
             paise == ((n % MILLS) + 5) \div 10
             result ==
                 IF rupees = 0 THEN <<>>
                 ELSE IF rupees < 100 THEN convert_two_digits(rupees)
                 ELSE IF rupees < 1000 THEN
                     Unit(rupees \div 100) \o <<" ", "Hundred", " ">> \o convert_two_digits(rupees % 100)
                 ELSE IF rupees < 100000 THEN
                     convert_two_digits(rupees \div 1000) \o <<" ", "Thousand", " ">> \o convert_two_digits(rupees % 1000)
                 ELSE
                     convert_two_digits(rupees \div 100000) \o <<" ", "Lakh", " ">> \o convert_two_digits(rupees % 100000)
             text == strip(result) \o <<" ", "Rupees">>
         IN  IF paise > 0
             THEN text \o <<" ", "and", " ">> \o convert_two_digits(paise) \o <<" ", "Paise">>
             ELSE text

\* The unit price generate_invoice prints on the line of a cart item
LineUnitPrice(item) ==
    IF item.quantity > 0 THEN item.price \div item.quantity ELSE item.price

\* generate_invoice with the label chosen by the payment type alone
generate_invoice_StatusByKind(cart, total_amount, payment_type, advance_amount, balance_amount, cust, payment_method) ==
    LET partial == payment_type = "advance"
    IN  [payment_status |-> IF partial THEN "Partially Paid" ELSE "Paid",
         payment_type |-> payment_type,
         payment_method |-> payment_method,
         items |-> cart,
         unit_prices |-> [i \in 1..Len(cart) |-> LineUnitPrice(cart[i])],
         subtotal |-> total_amount,
         grand_total |-> total_amount,
         advance_rows |-> partial,
         due_date_line |-> partial,
         advance_paid |-> IF partial THEN advance_amount ELSE 0,
         balance_due |-> IF partial THEN balance_amount ELSE 0,
         amount_in_words |->
             number_to_words((IF partial THEN advance_amount ELSE total_amount) * MILLS),
         customer |-> cust]

\* generate_invoice putting the grand total into words on every invoice
generate_invoice_WordsOfTotal(cart, total_amount, payment_type, advance_amount, balance_amount, cust, payment_method) ==
    LET partial == payment_type = "advance" /\ balance_amount > 0
    IN  [payment_status |-> IF partial THEN "Partially Paid" ELSE "Paid",
         payment_type |-> payment_type,
         payment_method |-> payment_method,
         items |-> cart,
         unit_prices |-> [i \in 1..Len(cart) |-> LineUnitPrice(cart[i])],
         subtotal |-> total_amount,
         grand_total |-> total_amount,
         advance_rows |-> partial,
         due_date_line |-> partial,
         advance_paid |-> IF partial THEN advance_amount ELSE 0,
         balance_due |-> IF partial THEN balance_amount ELSE 0,
         amount_in_words |->
             number_to_words(total_amount * MILLS),
         customer |-> cust]

\* PDFGenerator.generate_invoice: the content of the document
generate_invoice(cart, total_amount, payment_type, advance_amount, balance_amount, cust, payment_method) ==
    LET partial == payment_type = "advance" /\ balance_amount > 0
    IN  [payment_status |-> IF partial THEN "Partially Paid" ELSE "Paid",
         payment_type |-> payment_type,
         payment_method |-> payment_method,
         items |-> cart,
         unit_prices |-> [i \in 1..Len(cart) |-> LineUnitPrice(cart[i])],
         subtotal |-> total_amount,
         grand_total |-> total_amount,
         advance_rows |-> partial,
         due_date_line |-> partial,
         advance_paid |-> IF partial THEN advance_amount ELSE 0,
         balance_due |-> IF partial THEN balance_amount ELSE 0,
         amount_in_words |->
             number_to_words((IF partial THEN advance_amount ELSE total_amount) * MILLS),
         customer |-> cust]

(* ------------------------------- Init ---------------------------------- *)
InitDb == [p \in Products |->
             IF p = 1 THEN ProductRow(1, 500, 3, 1) ELSE ProductRow(2, 200, 1, 1)]

Init ==
    /\ db = InitDb
    /\ widgets = load_products_from_db(InitDb)
    /\ cart_items = <<>>
    /\ unitPrice = 0
    /\ pc = "idle"
    /\ flow = "none"
    /\ dlg = NoDialog
    /\ customer = NoCustomer
    /\ invoice = NoInvoice
    /\ msg = "none"
    /\ lastAdd = NoAdd
    /\ validated = <<>>
    /\ adminEdits = 0
    /\ amount = 0
    /\ words = NotCalled

(* --------------------------- cart handlers ----------------------------- *)
\* ProductWidget.add_to_cart_clicked -> CartWidget.add_to_cart with the
\* widget's id, name, price and stock
AddToCartClicked(p, reply) ==
    /\ pc = "idle"
    /\ UNCHANGED wvars
    /\ ButtonEnabled(widgets[p])
    /\ LET w == widgets[p]
           r == add_to_cart(cart_items, p, ProductName(p), w.price, w.stock, reply)
       IN  /\ cart_items' = r.cart
           /\ msg' = r.msg
           /\ unitPrice' = IF r.msg \in {"Added to Cart", "Cart Updated"}
                           THEN w.price ELSE unitPrice
           /\ lastAdd' = [product_id |-> p, price |-> w.price,
                          stock_available |-> w.stock,
                          quantity |-> IF cart_items # <<>> /\ cart_items[1].id = p
                                       THEN cart_items[1].quantity ELSE 0,
                          total |-> IF cart_items # <<>> /\ cart_items[1].id = p
                                    THEN cart_items[1].price ELSE 0,
                          reply |-> ReplaceReply(cart_items, p, reply)]
    /\ UNCHANGED <<db, widgets, pc, flow, dlg, customer, invoice, validated, adminEdits>>

\* Remove button or a click on the row's name or price cell
\* remove_from_cart giving the removed quantity back to the stock
RemoveFromCart_Restock(row) ==
    /\ pc = "idle"
    /\ UNCHANGED wvars
    /\ cart_items' = remove_from_cart(cart_items, row)
    /\ msg' = IF cart_items' # cart_items THEN "Removed from Cart" ELSE "none"
    /\ unitPrice' = IF cart_items' = <<>> THEN 0 ELSE unitPrice
    /\ lastAdd' = NoAdd
    /\ db' = IF cart_items # <<>> /\ db[cart_items[1].id] # NoRow
             THEN update_product(db, cart_items[1].id,
                     (COL_STOCK :> Col(db[cart_items[1].id], COL_STOCK) + cart_items[1].quantity))
             ELSE db
    /\ UNCHANGED <<widgets, pc, flow, dlg, customer, invoice, validated, adminEdits>>

RemoveFromCart(row) ==
    /\ pc = "idle"
    /\ UNCHANGED wvars
    /\ cart_items' = remove_from_cart(cart_items, row)
    /\ msg' = IF cart_items' # cart_items THEN "Removed from Cart" ELSE "none"
    /\ unitPrice' = IF cart_items' = <<>> THEN 0 ELSE unitPrice
    /\ lastAdd' = NoAdd
    /\ UNCHANGED <<db, widgets, pc, flow, dlg, customer, invoice, validated, adminEdits>>

\* CartWidget.clear_cart
ClearCart(reply) ==
    /\ pc = "idle"
    /\ UNCHANGED wvars
    /\ cart_items # <<>>
    /\ cart_items' = IF reply = "Yes" THEN <<>> ELSE cart_items
    /\ unitPrice' = IF reply = "Yes" THEN 0 ELSE unitPrice
    /\ msg' = "Clear Cart"
    /\ lastAdd' = NoAdd
    /\ UNCHANGED <<db, widgets, pc, flow, dlg, customer, invoice, validated, adminEdits>>

\* CustomerStoreWidget.refresh_products
RefreshProducts ==
    /\ pc = "idle"
    /\ UNCHANGED wvars
    /\ widgets' = load_products_from_db(db)
    /\ msg' = "Refreshed"
    /\ lastAdd' = NoAdd
    /\ UNCHANGED <<db, cart_items, unitPrice, pc, flow, dlg, customer, invoice,
                   validated, adminEdits>>

(* ------------------------- checkout handlers --------------------------- *)
\* Head of CartWidget.checkout (full = TRUE) and of
\* CartWidget.process_advance_payment (full = FALSE): empty-cart test,
\* stock check, then the first dialog of the handler.
BeginCheckout(full) ==
    /\ pc = "idle"
    /\ UNCHANGED wvars
    /\ lastAdd' = NoAdd
    /\ IF cart_items = <<>> THEN
            /\ msg' = "Empty Cart"
            /\ UNCHANGED <<pc, flow, dlg, validated>>
       ELSE IF ~StockCheck(cart_items, db, 1) THEN
            /\ msg' = "Stock Issue"
            /\ UNCHANGED <<pc, flow, dlg, validated>>
       ELSE /\ validated' = RowsRead(cart_items, db)
            /\ flow' = IF full THEN "full" ELSE "advance"
            /\ pc' = IF full THEN "identity" ELSE "plan"
            /\ dlg' = IF full THEN NoDialog
                      ELSE [total_amount |-> CartTotal(cart_items),
                            advance_amount |-> 0,
                            balance_amount |-> CartTotal(cart_items),
                            payment_method |-> "Cash",
                            payment_type |-> "unset"]
            /\ msg' = "none"
    /\ UNCHANGED <<db, widgets, cart_items, unitPrice, customer, invoice, adminEdits>>

\* Abort with the cart cleared on the way out
Abort_ClearsCart(m) ==
    /\ pc' = "idle"
    /\ UNCHANGED wvars
    /\ flow' = "none"
    /\ dlg' = NoDialog
    /\ customer' = NoCustomer
    /\ validated' = <<>>
    /\ msg' = m
    /\ cart_items' = <<>>
    /\ unitPrice' = 0
    /\ UNCHANGED <<db, widgets, invoice, lastAdd, adminEdits>>

\* Leaving the handler without a commit
Abort(m) ==
    /\ pc' = "idle"
    /\ UNCHANGED wvars
    /\ flow' = "none"
    /\ dlg' = NoDialog
    /\ customer' = NoCustomer
    /\ validated' = <<>>
    /\ msg' = m
    /\ UNCHANGED <<db, widgets, cart_items, unitPrice, invoice, lastAdd, adminEdits>>

\* on_advance_changed storing the advance without recomputing the balance
AdvanceChanged_StaleBalance(value) ==
    /\ pc = "plan"
    /\ UNCHANGED wvars
    /\ value \in 0..dlg.total_amount
    /\ value # dlg.advance_amount
    /\ dlg' = [dlg EXCEPT !.advance_amount = value]
    /\ msg' = "none"
    /\ UNCHANGED <<db, widgets, cart_items, unitPrice, pc, flow, customer,
                   invoice, lastAdd, validated, adminEdits>>

\* AdvancePaymentDialog.on_advance_changed; the spin box ranges over
\* 0..total_amount
AdvanceChanged(value) ==
    /\ pc = "plan"
    /\ UNCHANGED wvars
    /\ value \in 0..dlg.total_amount
    /\ value # dlg.advance_amount
    /\ dlg' = [dlg EXCEPT !.advance_amount = value,
                          !.balance_amount = dlg.total_amount - value]
    /\ msg' = "none"
    /\ UNCHANGED <<db, widgets, cart_items, unitPrice, pc, flow, customer,
                   invoice, lastAdd, validated, adminEdits>>

\* AdvancePaymentDialog.on_payment_method_changed
PaymentMethodChanged(method) ==
    /\ pc = "plan"
    /\ UNCHANGED wvars
    /\ method # dlg.payment_method
    /\ dlg' = [dlg EXCEPT !.payment_method = method]
    /\ msg' = "none"
    /\ UNCHANGED <<db, widgets, cart_items, unitPrice, pc, flow, customer,
                   invoice, lastAdd, validated, adminEdits>>

\* accept_advance without the test of the amount
AcceptAdvance_NoTest ==
    /\ pc = "plan"
    /\ UNCHANGED wvars
    /\ dlg' = [dlg EXCEPT !.payment_type = "advance"]
    /\ pc' = "identity"
    /\ msg' = "none"
    /\ UNCHANGED <<db, widgets, cart_items, unitPrice, flow, customer, invoice,
                   lastAdd, validated, adminEdits>>

\* AdvancePaymentDialog.accept_advance
AcceptAdvance ==
    /\ pc = "plan"
    /\ UNCHANGED wvars
    /\ IF dlg.advance_amount <= 0 THEN
            /\ msg' = "Invalid Amount"
            /\ UNCHANGED <<pc, dlg>>
       ELSE /\ dlg' = [dlg EXCEPT !.payment_type = "advance"]
            /\ pc' = "identity"
            /\ msg' = "none"
    /\ UNCHANGED <<db, widgets, cart_items, unitPrice, flow, customer, invoice,
                   lastAdd, validated, adminEdits>>

\* accept_full setting the payment type only, keeping the typed amounts
AcceptFull_KeepsTyped ==
    /\ pc = "plan"
    /\ UNCHANGED wvars
    /\ dlg' = [dlg EXCEPT !.payment_type = "full"]
    /\ pc' = "identity"
    /\ msg' = "none"
    /\ UNCHANGED <<db, widgets, cart_items, unitPrice, flow, customer, invoice,
                   lastAdd, validated, adminEdits>>

\* AdvancePaymentDialog.accept_full
AcceptFull ==
    /\ pc = "plan"
    /\ UNCHANGED wvars
    /\ dlg' = [dlg EXCEPT !.advance_amount = dlg.total_amount,
                          !.balance_amount = 0,
                          !.payment_type = "full"]
    /\ pc' = "identity"
    /\ msg' = "none"
    /\ UNCHANGED <<db, widgets, cart_items, unitPrice, flow, customer, invoice,
                   lastAdd, validated, adminEdits>>

\* Cancel in the advance payment dialog: exec() != Accepted
RejectPlan ==
    /\ pc = "plan"
    /\ Abort("none")

\* get_customer_info, on_proceed: the fields after strip()
\* str.strip on the texts a field of the customer dialog can hold
StripText(t) == IF t = " " THEN "" ELSE t

\* on_proceed testing the fields as typed, without strip
SubmitIdentity_NoStrip(name, address, phone, email) ==
    /\ pc = "identity"
    /\ UNCHANGED wvars
    /\ IF name = "" \/ address = "" THEN
            /\ msg' = "Required"
            /\ UNCHANGED <<pc, customer>>
       ELSE /\ customer' = <<StripText(name), StripText(address),
                             StripText(phone), StripText(email)>>
            /\ pc' = "save"
            /\ msg' = "none"
    /\ UNCHANGED <<db, widgets, cart_items, unitPrice, flow, dlg, invoice,
                   lastAdd, validated, adminEdits>>

SubmitIdentity(name, address, phone, email) ==
    /\ pc = "identity"
    /\ UNCHANGED wvars
    /\ IF StripText(name) = "" \/ StripText(address) = "" THEN
            /\ msg' = "Required"
            /\ UNCHANGED <<pc, customer>>
       ELSE /\ customer' = <<StripText(name), StripText(address),
                             StripText(phone), StripText(email)>>
            /\ pc' = "save"
            /\ msg' = "none"
    /\ UNCHANGED <<db, widgets, cart_items, unitPrice, flow, dlg, invoice,
                   lastAdd, validated, adminEdits>>

\* Cancel in the customer information dialog
RejectIdentity ==
    /\ pc = "identity"
    /\ Abort("none")

\* QFileDialog.getSaveFileName returned no path
CancelSave ==
    /\ pc = "save"
    /\ Abort("none")

\* The payment arguments the running handler passes to generate_invoice:
\* checkout passes payment_type "full", advance_amount = total,
\* balance_amount = 0 and payment_method "Full Payment";
\* process_advance_payment passes the dialog's fields.
PlanArgs ==
    IF flow = "full"
    THEN [payment_type |-> "full",
          advance_amount |-> CartTotal(cart_items),
          balance_amount |-> 0,
          payment_method |-> "Full Payment"]
    ELSE [payment_type |-> dlg.payment_type,
          advance_amount |-> dlg.advance_amount,
          balance_amount |-> dlg.balance_amount,
          payment_method |-> dlg.payment_method]

\* Finalize with the stock update loop ahead of generate_invoice, so that a
\* failed rendering leaves the stock written
Finalize_DeductFirst(renders) ==
    /\ pc = "save"
    /\ UNCHANGED wvars
    /\ db' = DeductStock(cart_items, db, 1)
    /\ IF renders THEN
            LET total == CartTotal(cart_items)
            IN  /\ invoice' = generate_invoice(
                          cart_items, total, PlanArgs.payment_type,
                          PlanArgs.advance_amount, PlanArgs.balance_amount,
                          customer, PlanArgs.payment_method)
                /\ pc' = "openq"
                /\ UNCHANGED <<widgets, cart_items, unitPrice, flow, dlg, customer,
                               msg, lastAdd, validated, adminEdits>>
       ELSE /\ pc' = "idle"
            /\ flow' = "none"
            /\ dlg' = NoDialog
            /\ customer' = NoCustomer
            /\ validated' = <<>>
            /\ msg' = "Error"
            /\ UNCHANGED <<widgets, cart_items, unitPrice, invoice, lastAdd,
                           adminEdits>>

\* A path was chosen: generate_invoice, then the stock update loop, then the
\* Payment Successful question.  renders = FALSE is generate_invoice raising,
\* which the handler's except clause reports.
Finalize(renders) ==
    /\ pc = "save"
    /\ UNCHANGED wvars
    /\ IF renders THEN
            LET total == CartTotal(cart_items)
                pdf == generate_invoice(
                          cart_items, total, PlanArgs.payment_type,
                          PlanArgs.advance_amount, PlanArgs.balance_amount,
                          customer, PlanArgs.payment_method)
            IN  /\ invoice' = pdf
                /\ db' = DeductStock(cart_items, db, 1)
                /\ pc' = "openq"
                /\ UNCHANGED <<widgets, cart_items, unitPrice, flow, dlg, customer,
                               msg, lastAdd, validated, adminEdits>>
       ELSE /\ pc' = "idle"
            /\ flow' = "none"
            /\ dlg' = NoDialog
            /\ customer' = NoCustomer
            /\ validated' = <<>>
            /\ msg' = "Error"
            /\ UNCHANGED <<db, widgets, cart_items, unitPrice, invoice, lastAdd, adminEdits>>

\* The answer to "Do you want to open the PDF?".  On Yes the handler starts
\* the platform's opener, which may raise (opens = FALSE); the raise lands in
\* the same except clause, past the statements that clear the cart.
OpenQuestion(reply, opens) ==
    /\ pc = "openq"
    /\ UNCHANGED wvars
    /\ IF reply = "Yes" /\ ~opens THEN
            /\ msg' = "Error"
            /\ UNCHANGED <<cart_items, unitPrice>>
       ELSE /\ cart_items' = <<>>
            /\ unitPrice' = 0
            /\ msg' = "Payment Successful!"
    /\ pc' = "idle"
    /\ flow' = "none"
    /\ dlg' = NoDialog
    /\ customer' = NoCustomer
    /\ validated' = <<>>
    /\ invoice' = NoInvoice
    /\ UNCHANGED <<db, widgets, lastAdd, adminEdits>>

(* --------------------------- administrator ----------------------------- *)
\* ProductDialog.save_product on an existing product: price > 0, stock from
\* the spin box (1..9999)
AdminSaveProduct(p, price, stock) ==
    /\ adminEdits < MaxAdminEdits
    /\ UNCHANGED wvars
    /\ db[p] # NoRow
    /\ db' = update_product(db, p, (1 :> ProductName(p)) @@ (COL_PRICE :> price)
                                   @@ (2 :> "") @@ (4 :> "") @@ (COL_STOCK :> stock))
    /\ adminEdits' = adminEdits + 1
    /\ UNCHANGED <<widgets, cart_items, unitPrice, pc, flow, dlg, customer,
                   invoice, msg, lastAdd, validated>>

\* AdminPanel.toggle_availability: the status button carries the negation of
\* the availability shown
AdminToggle(p) ==
    /\ adminEdits < MaxAdminEdits
    /\ UNCHANGED wvars
    /\ db[p] # NoRow
    /\ LET new_status == ~(Col(db[p], COL_AVAILABLE) # 0)
       IN  db' = update_product(db, p, (COL_AVAILABLE :> IF new_status THEN 1 ELSE 0))
    /\ adminEdits' = adminEdits + 1
    /\ UNCHANGED <<widgets, cart_items, unitPrice, pc, flow, dlg, customer,
                   invoice, msg, lastAdd, validated>>

\* AdminPanel.delete_product, confirmed
AdminDelete(p) ==
    /\ adminEdits < MaxAdminEdits
    /\ UNCHANGED wvars
    /\ db[p] # NoRow
    /\ db' = delete_product(db, p)
    /\ adminEdits' = adminEdits + 1
    /\ UNCHANGED <<widgets, cart_items, unitPrice, pc, flow, dlg, customer,
                   invoice, msg, lastAdd, validated>>

(* ------------------------------- Next ---------------------------------- *)
AdvanceChoices == {0} \cup AdvanceSteps \cup {dlg.total_amount}

Next ==
    \/ \E p \in Products, reply \in {"Yes", "No"} : AddToCartClicked(p, reply)
    \/ \E row \in {0} : RemoveFromCart(row)
    \/ \E reply \in {"Yes", "No"} : ClearCart(reply)
    \/ RefreshProducts
    \/ \E full \in BOOLEAN : BeginCheckout(full)
    \/ \E value \in AdvanceChoices : AdvanceChanged(value)
    \/ \E method \in PaymentMethods : PaymentMethodChanged(method)
    \/ AcceptAdvance
    \/ AcceptFull
    \/ RejectPlan
    \/ \E name \in Texts, address \in Texts, phone \in OptionalTexts, email \in OptionalTexts :
          SubmitIdentity(name, address, phone, email)
    \/ RejectIdentity
    \/ CancelSave
    \/ \E renders \in BOOLEAN : Finalize(renders)
    \/ \E reply \in {"Yes", "No"}, opens \in BOOLEAN : OpenQuestion(reply, opens)
    \/ \E p \in Products, price \in Prices, stock \in 1..MaxStock :
          AdminSaveProduct(p, price, stock)
    \/ \E p \in Products : AdminToggle(p)
    \/ \E p \in Products : AdminDelete(p)

Spec == Init /\ [][Next]_vars

\* ---- The storefront after a price change ----
\* The run from the state in which the cart holds P added at 500 and the
\* administrator has since saved P at 200 and the product list was refreshed;
\* adminEdits counts the edits from here on.
RepricedDb == [InitDb EXCEPT ![1] = ProductRow(1, 200, 3, 1)]

InitRepriced ==
    /\ db = RepricedDb
    /\ widgets = load_products_from_db(RepricedDb)
    /\ cart_items = <<CartLine(1, ProductName(1), 500)>>
    /\ unitPrice = 500
    /\ pc = "idle"
    /\ flow = "none"
    /\ dlg = NoDialog
    /\ customer = NoCustomer
    /\ invoice = NoInvoice
    /\ msg = "Refreshed"
    /\ lastAdd = NoAdd
    /\ validated = <<>>
    /\ adminEdits = 0
    /\ amount = 0
    /\ words = NotCalled

SpecRepriced == InitRepriced /\ [][Next]_vars

\* ---- number_to_words called on its own ----
\* The amounts drawn: every whole amount up to MaxRupees, and small amounts
\* with a fraction.
WordFractions == {4, 10, 500, 990, 999}
WordAmounts ==
    {r * MILLS : r \in 0..MaxRupees} \cup {r * MILLS + f : r \in 0..20, f \in WordFractions}

InitWords ==
    /\ db = InitDb
    /\ widgets = load_products_from_db(InitDb)
    /\ cart_items = <<>>
    /\ unitPrice = 0
    /\ pc = "idle"
    /\ flow = "none"
    /\ dlg = NoDialog
    /\ customer = NoCustomer
    /\ invoice = NoInvoice
    /\ msg = "none"
    /\ lastAdd = NoAdd
    /\ validated = <<>>
    /\ adminEdits = 0
    /\ amount \in WordAmounts
    /\ words = NotCalled

ConvertAmount ==
    /\ words = NotCalled
    /\ words' = number_to_words(amount)
    /\ UNCHANGED <<amount, svars>>

NextWords == ConvertAmount

SpecWords == InitWords /\ [][NextWords]_vars

\* ---- add_to_cart called on its own ----
\* CartWidget.add_to_cart takes the stock from its caller; the product list
\* passes the stock of an enabled button, another caller may pass any integer.
CallStocks == (0 - 1)..MaxStock

DirectAdd(p, price, stock_available, reply) ==
    /\ LET r == add_to_cart(cart_items, p, ProductName(p), price, stock_available, reply)
       IN  /\ cart_items' = r.cart
           /\ msg' = r.msg
           /\ unitPrice' = IF r.msg \in {"Added to Cart", "Cart Updated"}
                           THEN price ELSE unitPrice
           /\ lastAdd' = [product_id |-> p, price |-> price,
                          stock_available |-> stock_available,
                          quantity |-> IF cart_items # <<>> /\ cart_items[1].id = p
                                       THEN cart_items[1].quantity ELSE 0,
                          total |-> IF cart_items # <<>> /\ cart_items[1].id = p
                                    THEN cart_items[1].price ELSE 0,
                          reply |-> ReplaceReply(cart_items, p, reply)]
    /\ UNCHANGED <<db, widgets, pc, flow, dlg, customer, invoice, validated, adminEdits>>
    /\ UNCHANGED wvars

NextCart ==
    \E p \in Products, price \in Prices, stock_available \in CallStocks, reply \in {"Yes", "No"} :
        DirectAdd(p, price, stock_available, reply)

SpecCart == Init /\ [][NextCart]_vars

(* ------------------------------ claims --------------------------------- *)
\* Steps of the storefront process (the administrator's edits are the only
\* steps that advance adminEdits)
StoreStep == adminEdits' = adminEdits

\* The step that renders the invoice and writes the stock
CommitStep == pc = "save" /\ pc' = "openq"

\* The step in which the stock check lets a checkout proceed
ProceedStep == pc = "idle" /\ pc' # "idle"

\* A step in which the stock check refuses the checkout
RefusedStep == pc = "idle" /\ StoreStep /\ msg # "Stock Issue" /\ msg' = "Stock Issue"

\* C1: after a successful checkout of a line of quantity q, with stock s >= q
\* read at checkout time, the product's stock is s - q and the cart is empty.
C1_CommitDecrementsByQuantity ==
    [][ /\ CommitStep =>
            \A i \in 1..Len(cart_items) :
                LET row == get_product(db, cart_items[i].id)
                IN  (row # NoRow /\ Col(row, COL_STOCK) >= cart_items[i].quantity)
                    => Col(db'[cart_items[i].id], COL_STOCK)
                         = Col(row, COL_STOCK) - cart_items[i].quantity
        /\ (pc = "openq" /\ msg' = "Payment Successful!") => cart_items' = <<>>
      ]_vars

\* C2: the stock check lets the checkout proceed only if every cart line's
\* quantity is <= the stock_quantity of its row as read at that moment, and
\* refuses it otherwise.
C2_CheckComparesFreshStock ==
    [][ /\ ProceedStep =>
            \A i \in 1..Len(cart_items) :
                LET row == get_product(db, cart_items[i].id)
                IN  row # NoRow => cart_items[i].quantity <= Col(row, COL_STOCK)
        /\ RefusedStep =>
            \E i \in 1..Len(cart_items) :
                LET row == get_product(db, cart_items[i].id)
                IN  row # NoRow /\ cart_items[i].quantity > Col(row, COL_STOCK)
      ]_vars

\* C3: the cart never holds more than one line, hence never more than one
\* distinct product id.
C3_SingleLine ==
    /\ Len(cart_items) <= 1
    /\ Cardinality({cart_items[i].id : i \in 1..Len(cart_items)}) <= 1

\* C3 witness: a confirmed replacement has put the other product in the cart
C3_Witness ==
    /\ msg = "Cart Updated"
    /\ Len(cart_items) = 1
    /\ cart_items[1].id = 2

\* C4: whenever the cart holds a line, its stored total is the unit price
\* captured when the line was created times its quantity.
C4_LineTotalConsistent ==
    \A i \in 1..Len(cart_items) :
        cart_items[i].price = unitPrice * cart_items[i].quantity

\* C5: an add of the product already in the cart never raises the quantity
\* above the stock passed to it; at quantity + 1 > stock it reports the stock
\* limit and leaves quantity and total as they were.
C5_IncreaseBoundedByStock ==
    (lastAdd.quantity > 0) =>
        /\ Len(cart_items) >= 1
        /\ cart_items[1].id = lastAdd.product_id
        /\ IF lastAdd.quantity + 1 > lastAdd.stock_available
           THEN /\ msg = "Stock Limit Reached"
                /\ cart_items[1].quantity = lastAdd.quantity
                /\ cart_items[1].price = lastAdd.total
           ELSE /\ msg = "Quantity Updated"
                /\ cart_items[1].quantity = lastAdd.quantity + 1
                /\ cart_items[1].quantity <= lastAdd.stock_available

\* C5 witness: an add at the boundary (quantity 3 of 3 in stock) was refused
C5_Witness ==
    /\ msg = "Stock Limit Reached"
    /\ lastAdd.quantity = 3
    /\ lastAdd.stock_available = 3
    /\ cart_items[1].quantity = 3

\* C6: once the invoice is rendered and the stock written, the handler always
\* ends with the cart cleared, whatever happens when the document is opened.
C6_CommitRunsToCompletion ==
    [][ (pc = "openq" /\ pc' = "idle") => cart_items' = <<>> ]_vars

\* C7: a checkout attempt that ends without a commit (refused by the stock
\* check, or cancelled in the payment, customer or save dialog) leaves the
\* cart and every product's row as they were: no step of the attempt before
\* the commit changes either.
C7_AbortChangesNothing ==
    [][ (StoreStep /\ ~CommitStep /\ msg' # "Error"
           /\ (pc \in {"plan", "identity", "save"}
               \/ (pc = "idle" /\ (pc' # "idle" \/ msg' = "Stock Issue"))))
        => (cart_items' = cart_items /\ db' = db) ]_vars

\* C7 witness: a checkout of two units was refused and the cart still holds them
C7_Witness ==
    /\ pc = "idle"
    /\ msg = "Stock Issue"
    /\ Len(cart_items) = 1
    /\ cart_items[1].quantity = 2

\* C8: when generate_invoice raises, the handler ends with the cart and every
\* product's row unchanged.
C8_RenderFailureChangesNothing ==
    [][ (pc = "save" /\ pc' = "idle" /\ msg' = "Error")
        => (cart_items' = cart_items /\ db' = db) ]_vars

\* C8 witness: the error was reported, the line is still in the cart and the
\* product's stock is untouched
C8_Witness ==
    /\ pc = "idle"
    /\ msg = "Error"
    /\ adminEdits = 0
    /\ Len(cart_items) = 1
    /\ cart_items[1].id = 1
    /\ db[1] = ProductRow(1, 500, 3, 1)

\* C9: in the scenario's state (P at price 500 with stock 3 and available,
\* cart holding 3 units of P for 1500) the checkout is not refused by the
\* stock check.
C9_ScenarioCheckoutProceeds ==
    [][ (/\ cart_items = <<[id |-> 1, name |-> "P", price |-> 1500, quantity |-> 3]>>
         /\ db[1] = ProductRow(1, 500, 3, 1))
        => ~RefusedStep ]_vars

\* C10: no checkout commits for a product whose row, as read by the stock
\* check, has is_available false or stock_quantity 0.
C10_CommitOnlyPurchasable ==
    [][ CommitStep =>
          \A i \in 1..Len(validated) :
              validated[i] # NoRow =>
                  /\ Col(validated[i], COL_AVAILABLE) # 0
                  /\ Col(validated[i], COL_STOCK) > 0 ]_vars

\* C11: the stock quantity of every product is a non-negative integer in
\* every reachable state.
C11_StockNonNegative ==
    \A p \in Products :
        db[p] # NoRow => (Col(db[p], COL_STOCK) \in Int /\ Col(db[p], COL_STOCK) >= 0)

\* The running handler holds an accepted payment plan
PlanAccepted == pc \in {"identity", "save", "openq"}

\* C12: for every payment plan accepted by the payment dialog, advance or
\* full, advance_amount + balance_amount = total_amount, and total_amount is
\* the cart's line total.
C12_SplitClosure ==
    PlanAccepted =>
        /\ PlanArgs.advance_amount + PlanArgs.balance_amount = CartTotal(cart_items)
        /\ flow = "advance" =>
              /\ dlg.advance_amount + dlg.balance_amount = dlg.total_amount
              /\ dlg.total_amount = CartTotal(cart_items)

\* C12 witness: an advance of 200 on a total of 500 was accepted
C12_Witness ==
    /\ pc = "identity"
    /\ dlg.payment_type = "advance"
    /\ dlg.advance_amount = 200
    /\ dlg.balance_amount = 300

\* C13: every full-payment plan, from the Pay Full Amount button or from the
\* full-payment checkout, has balance 0 and advance equal to the total.
C13_FullPlanHasNoBalance ==
    (PlanAccepted /\ PlanArgs.payment_type = "full") =>
        /\ PlanArgs.balance_amount = 0
        /\ PlanArgs.advance_amount = CartTotal(cart_items)
        /\ pc = "openq" => invoice.payment_status = "Paid"

\* C13 witness: Pay Full Amount was pressed in the payment dialog
C13_Witness ==
    /\ flow = "advance"
    /\ pc = "identity"
    /\ dlg.payment_type = "full"
    /\ dlg.total_amount = 500
    /\ dlg.advance_amount = 500

C15_StatusLabel ==
    pc = "openq" =>
        /\ invoice.payment_status \in {"Partially Paid", "Paid"}
        /\ invoice.payment_status = "Partially Paid" <=>
               (PlanArgs.payment_type = "advance" /\ PlanArgs.balance_amount > 0)

\* An advance plan whose advance equals the total has been rendered
C15_Witness ==
    /\ pc = "openq"
    /\ dlg.payment_type = "advance"
    /\ dlg.balance_amount = 0
    /\ invoice.payment_status = "Paid"

\* The text a call of number_to_words returned, read with its blanks
Called == words # NotCalled

\* C16: the amount in words of 0 is "Zero Rupees", of 100 "One Hundred
\* Rupees", of 1500 "One Thousand Five Hundred Rupees" and of 100000 "One
\* Lakh Rupees".
C16_RoundAmounts ==
    Called =>
        /\ amount = 0 => words = <<"Zero", " ", "Rupees">>
        /\ amount = 100 * MILLS => words = <<"One", " ", "Hundred", " ", "Rupees">>
        /\ amount = 1500 * MILLS =>
               words = <<"One", " ", "Thousand", " ", "Five", " ", "Hundred", " ", "Rupees">>
        /\ amount = 100000 * MILLS => words = <<"One", " ", "Lakh", " ", "Rupees">>

\* C17: the unit price of a line is the price passed to the add that created
\* it; an add that raises the quantity leaves total / quantity at that price,
\* whatever price the add itself passes.
IncreaseStep ==
    /\ cart_items # <<>>
    /\ cart_items' # <<>>
    /\ cart_items'[1].id = cart_items[1].id
    /\ cart_items'[1].quantity > cart_items[1].quantity

C17_UnitPriceCaptured ==
    [][IncreaseStep =>
          /\ unitPrice' = unitPrice
          /\ cart_items'[1].price = unitPrice * cart_items'[1].quantity]_vars

\* C18: an add to an empty cart with a stock of 0 or less reports out of
\* stock and leaves the cart empty; with a positive stock it creates one line
\* with quantity 1 and total equal to the price passed.
C18_AddToEmptyCart ==
    [][cart_items = <<>> =>
          IF lastAdd'.stock_available <= 0
          THEN msg' = "Out of Stock" /\ cart_items' = <<>>
          ELSE /\ Len(cart_items') = 1
               /\ cart_items'[1].id = lastAdd'.product_id
               /\ cart_items'[1].quantity = 1
               /\ cart_items'[1].price = lastAdd'.price]_vars

\* An add to the empty cart was refused for a stock of 0 or less
C18_Witness ==
    /\ cart_items = <<>>
    /\ msg = "Out of Stock"
    /\ lastAdd.stock_available <= 0
    /\ lastAdd.product_id \in Products

\* An add of a product other than the one in the cart
OtherProductStep == cart_items # <<>> /\ lastAdd'.product_id # cart_items[1].id

\* C19: an add of another product changes the cart only when the replacement
\* was confirmed; when it was declined the line is what it was before.
C19_NoChangeUntilConfirmed ==
    [][(OtherProductStep /\ lastAdd'.reply # "Yes") => cart_items' = cart_items]_vars

\* A replacement was declined: the cart holds the other product
C19_Witness ==
    /\ lastAdd.reply = "No"
    /\ msg = "Replace Cart Item"
    /\ cart_items # <<>>
    /\ cart_items[1].id # lastAdd.product_id
    /\ cart_items[1].quantity = 2

\* C20: a confirmed replacement with a stock of 0 or less reports out of
\* stock and keeps the line; with a positive stock the cart holds one fresh
\* line of the incoming product with quantity 1 and total equal to its price.
C20_ConfirmedReplacement ==
    [][(OtherProductStep /\ lastAdd'.reply = "Yes") =>
          IF lastAdd'.stock_available <= 0
          THEN msg' = "Out of Stock" /\ cart_items' = cart_items
          ELSE /\ Len(cart_items') = 1
               /\ cart_items'[1].id = lastAdd'.product_id
               /\ cart_items'[1].quantity = 1
               /\ cart_items'[1].price = lastAdd'.price]_vars

\* A confirmed replacement of a line of quantity 2 was refused for a stock of
\* 0 or less
C20_Witness ==
    /\ lastAdd.reply = "Yes"
    /\ lastAdd.stock_available <= 0
    /\ msg = "Out of Stock"
    /\ cart_items # <<>>
    /\ cart_items[1].id # lastAdd.product_id
    /\ cart_items[1].quantity = 2

\* C21: the invoice is rendered only for a customer whose name and address
\* are non-empty after trimming; a submission with an empty name or address
\* shows "Required" and leaves the checkout at the customer dialog; an empty
\* phone and email are accepted.
C21_IdentityRequired ==
    /\ [](/\ pc \in {"save", "openq"} =>
                /\ customer # NoCustomer
                /\ customer[1] \notin {"", " "}
                /\ customer[2] \notin {"", " "}
          /\ pc = "openq" => invoice.customer = customer
          /\ msg = "Required" => (pc = "identity" /\ customer = NoCustomer))
    /\ [][(pc = "identity" /\ msg' = "Required") =>
             (pc' = "identity" /\ customer' = customer /\ invoice' = invoice)]_vars

\* An invoice was rendered for a customer who gave no phone and no email
C21_Witness ==
    /\ pc = "openq"
    /\ invoice.customer = <<"x", "x", "", "">>

\* C22: of the steps of the storefront only the commit writes the products
\* table: add, increase, replace, remove, clear, and every step of a checkout
\* that is abandoned or fails leave every row as it was.
C22_OnlyCommitWritesStock ==
    [][(StoreStep /\ ~CommitStep) => db' = db]_vars

\* A line was removed and the products table is what it was at the start
C22_Witness ==
    /\ msg = "Removed from Cart"
    /\ cart_items = <<>>
    /\ adminEdits = 0
    /\ db = InitDb

\* C23: the payment method printed on every invoice, of an advance checkout
\* and of a full-payment checkout, is one of Cash, Credit Card, Debit Card,
\* UPI, Bank Transfer.
C23_MethodEnumerated ==
    pc = "openq" => invoice.payment_method \in PaymentMethods

\* C24: removing the line empties the cart whatever the quantity of the line,
\* removing from an empty cart changes nothing, and so removing twice is the
\* same as removing once; after a removal the cart holds no line.
C24_RemoveEmptiesSlot ==
    /\ remove_from_cart(cart_items, 0) = <<>>
    /\ remove_from_cart(<<>>, 0) = <<>>
    /\ remove_from_cart(remove_from_cart(cart_items, 0), 0) = remove_from_cart(cart_items, 0)
    /\ msg = "Removed from Cart" => cart_items = <<>>

\* A line was removed: the cart is empty and the checkout idle
C24_Witness ==
    /\ msg = "Removed from Cart"
    /\ cart_items = <<>>
    /\ unitPrice = 0
    /\ pc = "idle"

\* The order of the steps of one checkout: stock check, payment plan (the
\* Full Payment button is the plan of a full checkout), customer identity,
\* file and rendering, stock write, cart clear; every step may fall back to
\* idle.
StepOrder ==
    {<<"idle", "plan">>, <<"idle", "identity">>, <<"plan", "identity">>,
     <<"identity", "save">>, <<"save", "openq">>,
     <<"plan", "idle">>, <<"identity", "idle">>, <<"save", "idle">>, <<"openq", "idle">>}

CartItemIds(cart) == {cart[i].id : i \in 1..Len(cart)}

\* The parts of the order that concern only the sequence of the steps
StepsInOrder ==
    /\ pc' # pc => <<pc, pc'>> \in StepOrder
    /\ (StoreStep /\ db' # db) => (CommitStep /\ invoice' # NoInvoice)
    /\ (pc # "idle" /\ cart_items' # cart_items) => (pc = "openq" /\ cart_items' = <<>>)
    /\ CommitStep => validated # <<>> /\ customer # NoCustomer

\* C25: the steps of a checkout run in the order stock check, payment plan,
\* customer identity, rendering, stock write, cart clear; the stock is written
\* only after a successful rendering, the cart is cleared only after the
\* stock write, and no step is skipped: the commit writes the stock of every
\* line of the cart.
C25_StepsInOrder ==
    [][/\ StepsInOrder
       /\ CommitStep => StockWrites(cart_items, db) = CartItemIds(cart_items)]_vars

\* C26: the invoice has the "Advance Paid" and "Balance Due" rows, the due
\* date line and the advance amount in words exactly when the plan is an
\* advance plan with a balance above zero; otherwise it has none of them and
\* the amount in words is that of the grand total.
C26_AdvanceParts ==
    pc = "openq" =>
        LET partial == PlanArgs.payment_type = "advance" /\ PlanArgs.balance_amount > 0
        IN  /\ invoice.advance_rows = partial
            /\ invoice.due_date_line = partial
            /\ partial => /\ invoice.advance_paid = PlanArgs.advance_amount
                          /\ invoice.balance_due = PlanArgs.balance_amount
                          /\ invoice.amount_in_words = number_to_words(PlanArgs.advance_amount * MILLS)
            /\ ~partial => invoice.amount_in_words = number_to_words(invoice.grand_total * MILLS)
            /\ invoice.grand_total = CartTotal(cart_items)

\* An invoice of an advance of 200 on a total of 500 was rendered
C26_Witness ==
    /\ pc = "openq"
    /\ invoice.advance_rows
    /\ invoice.grand_total = 500
    /\ invoice.amount_in_words = <<"Two", " ", "Hundred", " ", "Rupees">>

\* The words number_to_words composes a whole amount from
NumberWords ==
    {units[i] : i \in 1..Len(units)} \cup {teens[i] : i \in 1..Len(teens)}
        \cup ({tens[i] : i \in 1..Len(tens)} \ {""})
GroupWords == {"Hundred", "Thousand", "Lakh", "Rupees"}

\* C27: for every whole amount from 1 to MaxRupees, which covers the
\* hundreds, thousands and lakhs groupings, the amount in words consists of
\* number words only: the remainder below each threshold is put into words,
\* never into digits.
C27_WordsOnly ==
    (Called /\ amount % MILLS = 0 /\ amount >= MILLS) =>
        \A i \in 1..Len(words) : words[i] \in NumberWords \cup GroupWords \cup {" "}

\* The minor unit of an amount: its fraction as the nearest number of paise
MinorUnit(n) == ((n % MILLS) + 5) \div 10

\* The text ends with the clause "and <words> Paise"
HasPaiseClause == Len(words) >= 2 /\ words[Len(words)] = "Paise" /\ "and" \in {words[i] : i \in 1..Len(words)}

\* C28: the amount in words ends with the clause "and <words> Paise" exactly
\* when the minor unit is not zero, the minor unit put into words is always
\* between 1 and 99, and the amount zero is the single word "Zero".
C28_MinorUnitClause ==
    Called =>
        /\ amount = 0 => words = <<"Zero">>
        /\ HasPaiseClause <=> MinorUnit(amount) # 0
        /\ HasPaiseClause => MinorUnit(amount) \in 1..99

\* C29: the unit price on an invoice line is the line total divided by the
\* quantity; every line on an invoice has a quantity of at least 1, so the
\* division is defined; and the quotient is the unit price the line was
\* created with.
C29_InvoiceUnitPrice ==
    pc = "openq" =>
        \A i \in 1..Len(invoice.items) :
            /\ invoice.items[i].quantity >= 1
            /\ invoice.unit_prices[i] * invoice.items[i].quantity = invoice.items[i].price
            /\ invoice.unit_prices[i] = unitPrice

\* get_product finds no row for any item of the cart
RowsMissing(cart, d) ==
    cart # <<>> /\ \A i \in 1..Len(cart) : get_product(d, cart[i].id) = NoRow

\* The stock check and the stock update loop when the rows are missing: the
\* check does not refuse, and the commit writes nothing
SkippedOnMissing ==
    /\ (pc = "idle" /\ StoreStep /\ RowsMissing(cart_items, db)) => msg' # "Stock Issue"
    /\ (CommitStep /\ RowsMissing(cart_items, db)) => db' = db

\* The stock check of the running checkout found no row for any item
CheckedMissing == validated # <<>> /\ \A i \in 1..Len(validated) : validated[i] = NoRow

\* C30: when the product of the cart is no longer in the products table, the
\* stock check is skipped and does not refuse, the checkout renders the
\* invoice, writes no stock, and clears the cart.
C30_MissingProductCheckout ==
    [][/\ SkippedOnMissing
       /\ (pc = "openq" /\ pc' = "idle" /\ CheckedMissing) => cart_items' = <<>>]_vars

====
